---- MODULE Spec2Model ----
(***************************************************************************)
(* normGym: a grid-world cafe (world.py), customers that walk to a queue   *)
(* spot (agent.py) and the queuing norm that logs violations (norm.py).    *)
(*                                                                         *)
(* Positions are pairs <<row, col>>.  Python's None is modelled as NONE    *)
(* (the empty tuple, falsy like None) for optional positions and as        *)
(* NoIndex for the optional queue index.                                   *)
(***************************************************************************)
EXTENDS Integers, Sequences, FiniteSets, TLC

VARIABLES world, agents, queue, violation_log, call, tick, turn, hist

vars == <<world, agents, queue, violation_log, call, tick, turn, hist>>

NONE == <<>>

NoIndex == -1

(***************************************************************************)
(* world.py: cell types and the default dimensions                         *)
(***************************************************************************)
EMPTY == 0

WALL == 1

ENTRANCE == 2

COUNTER == 3

QUEUE_ZONE == 4

PICKUP_SHELF == 5

CHAIR == 6

TABLE_2TOP == 7

TABLE_4TOP == 8

AISLE == 9

KITCHEN == 10

LAPTOP_BAR_COUNTER == 11

Width == 15

Height == 10

Rows == 0 .. (Height - 1)

Cols == 0 .. (Width - 1)

Cells == Rows \X Cols

InBounds(r, c) == 0 <= r /\ r < Height /\ 0 <= c /\ c < Width

\* grid[r, c] = v
GridSet(w, r, c, v) == [w EXCEPT !.grid = [@ EXCEPT ![<<r, c>>] = v]]

\* chair_to_table[k] = v (a dict store: inserts or overwrites the key)
DictSet(d, k, v) == [x \in (DOMAIN d) \cup {k} |-> IF x = k THEN v ELSE d[x]]

\* The cell writes of a rectangle, rows and columns clipped to the grid.
AddRectangle(w, start_row, start_col, height, width, cell_type) ==
    [w EXCEPT !.grid =
        [p \in Cells |->
            IF /\ start_row <= p[1] /\ p[1] < start_row + height
               /\ start_col <= p[2] /\ p[2] < start_col + width
               /\ InBounds(p[1], p[2])
            THEN cell_type ELSE @[p]]]

\* Faulty variant: the bottom chair is mapped to the top chair, not the table.
Add2TopBadMap(w, row, col) ==
    LET table_pos == <<row, col>>
        chair_top == <<row - 1, col>>
        chair_bottom == <<row + 1, col>>
        w1 == GridSet(w, row, col, TABLE_2TOP)
        w2 == GridSet(w1, chair_top[1], chair_top[2], CHAIR)
        w3 == GridSet(w2, chair_bottom[1], chair_bottom[2], CHAIR)
    IN  [w3 EXCEPT !.chair_to_table =
            DictSet(DictSet(@, chair_top, table_pos), chair_bottom, chair_top)]

Add2TopWithChairs(w, row, col) ==
    LET table_pos == <<row, col>>
        chair_top == <<row - 1, col>>
        chair_bottom == <<row + 1, col>>
        w1 == GridSet(w, row, col, TABLE_2TOP)
        w2 == GridSet(w1, chair_top[1], chair_top[2], CHAIR)
        w3 == GridSet(w2, chair_bottom[1], chair_bottom[2], CHAIR)
    IN  [w3 EXCEPT !.chair_to_table =
            DictSet(DictSet(@, chair_top, table_pos), chair_bottom, table_pos)]

\* One chair of a 4-top: placed and mapped only when it lies inside the grid.
Add4TopChair(w, chair_pos, table_center) ==
    IF InBounds(chair_pos[1], chair_pos[2])
    THEN [GridSet(w, chair_pos[1], chair_pos[2], CHAIR)
            EXCEPT !.chair_to_table = DictSet(@, chair_pos, table_center)]
    ELSE w

Add4TopWithChairs(w, row, col) ==
    LET w1 == GridSet(w, row, col, TABLE_4TOP)
        w2 == GridSet(w1, row, col + 1, TABLE_4TOP)
        w3 == GridSet(w2, row + 1, col, TABLE_4TOP)
        w4 == GridSet(w3, row + 1, col + 1, TABLE_4TOP)
        table_center == <<row, col>>
        c1 == Add4TopChair(w4, <<row - 1, col>>, table_center)
        c2 == Add4TopChair(c1, <<row - 1, col + 1>>, table_center)
        c3 == Add4TopChair(c2, <<row + 2, col>>, table_center)
    IN  Add4TopChair(c3, <<row + 2, col + 1>>, table_center)

\* One row of the laptop bar: the bar cell and the chair beside it.
LaptopBarRow(w, row, laptop_bar_col) ==
    GridSet(GridSet(w, row, laptop_bar_col, LAPTOP_BAR_COUNTER),
            row, laptop_bar_col + 1, CHAIR)

CreateLayout(w) ==
    LET filled == [w EXCEPT !.grid = [p \in Cells |-> WALL]]
        floor == AddRectangle(filled, 1, 1, 10, 13, EMPTY)
        entrance == [floor EXCEPT !.grid =
                        [p \in Cells |->
                            IF p[1] = 9 /\ p[2] \in 6 .. 9 THEN ENTRANCE ELSE @[p]]]
        counter == [entrance EXCEPT !.grid =
                        [p \in Cells |->
                            IF p[1] = 1 /\ p[2] \in 6 .. 7 THEN COUNTER ELSE @[p]]]
        pickup == AddRectangle(counter, 1, 4, 1, 1, PICKUP_SHELF)
        kitchen == AddRectangle(pickup, 1, 12, 3, 3, KITCHEN)
        bar == LaptopBarRow(LaptopBarRow(LaptopBarRow(kitchen, 6, 1), 7, 1), 8, 1)
        t1 == Add2TopWithChairs(bar, 3, 1)
        t2 == Add2TopWithChairs(t1, 3, 3)
        t3 == Add2TopWithChairs(t2, 7, 4)
        f1 == Add4TopWithChairs(t3, 3, 9)
        f2 == Add4TopWithChairs(f1, 7, 9)
    IN  Add4TopWithChairs(f2, 7, 12)

\* The scan order of _identify_zones: rows outermost, columns innermost.
RowMajor == [i \in 1 .. (Height * Width) |-> <<(i - 1) \div Width, (i - 1) % Width>>]

ZoneOf(g, cell_type) == SelectSeq(RowMajor, LAMBDA p : g[p] = cell_type)

IdentifyZones(w) ==
    [w EXCEPT
        !.zones = [entrance |-> ZoneOf(w.grid, ENTRANCE),
                   counter |-> ZoneOf(w.grid, COUNTER),
                   queue |-> <<>>,
                   pickup_shelf |-> ZoneOf(w.grid, PICKUP_SHELF),
                   laptop_bar_counter |-> ZoneOf(w.grid, LAPTOP_BAR_COUNTER),
                   chairs |-> ZoneOf(w.grid, CHAIR),
                   tables_2top |-> ZoneOf(w.grid, TABLE_2TOP),
                   tables_4top |-> ZoneOf(w.grid, TABLE_4TOP),
                   aisles |-> ZoneOf(w.grid, AISLE),
                   kitchen |-> ZoneOf(w.grid, KITCHEN),
                   open_space |-> ZoneOf(w.grid, EMPTY)],
        !.walkable_cells = @ \cup {p \in Cells : w.grid[p] \in {ENTRANCE, AISLE, EMPTY}}]

\* CafeWorld(): the default world, after _create_layout and _identify_zones.
CafeWorld ==
    IdentifyZones(CreateLayout(
        [grid |-> [p \in Cells |-> 0],
         zones |-> <<>>,
         chair_to_table |-> <<>>,
         walkable_cells |-> {}]))

is_walkable(w, pos) ==
    IF ~InBounds(pos[1], pos[2]) THEN FALSE ELSE pos \in w.walkable_cells

is_sittable(w, pos) ==
    IF ~InBounds(pos[1], pos[2]) THEN FALSE ELSE w.grid[pos] = CHAIR

(***************************************************************************)
(* agent.py: enumerations, Agent, Customer                                 *)
(***************************************************************************)
AgentStatus ==
    {"ENTERING", "QUEUING", "ORDERING", "WAITING_FOR_ORDER", "EXITING", "WORKING",
     "MOVING_TO_QUEUE", "MOVING_TO_PICKUP"}

\* The members of the Action enumeration, by name.
Action == {"MOVE", "QUEUE", "YIELD", "ORDER", "PICK_UP", "WAIT", "SERVE"}

\* Customer(agent_id, position): Agent.__init__ with type CUSTOMER and speed 1.0.
Customer(agent_id, position) ==
    [agent_id |-> agent_id,
     agent_type |-> "CUSTOMER",
     speed |-> 1,
     position |-> position,
     status |-> "ENTERING",
     target_position |-> NONE,
     queue_position |-> NoIndex,
     order_ready |-> FALSE,
     patience |-> 100]

\* Faulty variant: the column step is taken without asking the world.
move_towards_unchecked(self, target, w) ==
    IF self.position = target THEN [self |-> self, ret |-> FALSE]
    ELSE
    LET current_r == self.position[1]
        current_c == self.position[2]
        target_r == target[1]
        target_c == target[2]
        next_pos ==
            IF current_r < target_r /\ is_walkable(w, <<current_r + 1, current_c>>)
                THEN <<current_r + 1, current_c>>
            ELSE IF current_r > target_r /\ is_walkable(w, <<current_r - 1, current_c>>)
                THEN <<current_r - 1, current_c>>
            ELSE IF current_c < target_c
                THEN <<current_r, current_c + 1>>
            ELSE IF current_c > target_c
                THEN <<current_r, current_c - 1>>
            ELSE self.position
    IN  IF next_pos # self.position
        THEN [self |-> [self EXCEPT !.position = next_pos], ret |-> TRUE]
        ELSE [self |-> self, ret |-> FALSE]

\* Faulty variant: the column step is tried before the row step.
move_towards_col_first(self, target, w) ==
    IF self.position = target THEN [self |-> self, ret |-> FALSE]
    ELSE
    LET current_r == self.position[1]
        current_c == self.position[2]
        target_r == target[1]
        target_c == target[2]
        next_pos ==
            IF current_c < target_c /\ is_walkable(w, <<current_r, current_c + 1>>)
                THEN <<current_r, current_c + 1>>
            ELSE IF current_c > target_c /\ is_walkable(w, <<current_r, current_c - 1>>)
                THEN <<current_r, current_c - 1>>
            ELSE IF current_r < target_r /\ is_walkable(w, <<current_r + 1, current_c>>)
                THEN <<current_r + 1, current_c>>
            ELSE IF current_r > target_r /\ is_walkable(w, <<current_r - 1, current_c>>)
                THEN <<current_r - 1, current_c>>
            ELSE self.position
    IN  IF next_pos # self.position
        THEN [self |-> [self EXCEPT !.position = next_pos], ret |-> TRUE]
        ELSE [self |-> self, ret |-> FALSE]

\* Faulty variant: the step along the axis of the larger delta is tried first.
move_towards_larger_first(self, target, w) ==
    IF self.position = target THEN [self |-> self, ret |-> FALSE]
    ELSE
    LET current_r == self.position[1]
        current_c == self.position[2]
        target_r == target[1]
        target_c == target[2]
        dr == IF current_r < target_r THEN target_r - current_r ELSE current_r - target_r
        dc == IF current_c < target_c THEN target_c - current_c ELSE current_c - target_c
        row_pos == IF current_r < target_r THEN <<current_r + 1, current_c>>
                   ELSE <<current_r - 1, current_c>>
        col_pos == IF current_c < target_c THEN <<current_r, current_c + 1>>
                   ELSE <<current_r, current_c - 1>>
        row_ok == current_r # target_r /\ is_walkable(w, row_pos)
        col_ok == current_c # target_c /\ is_walkable(w, col_pos)
        next_pos ==
            IF dc > dr /\ col_ok THEN col_pos
            ELSE IF row_ok THEN row_pos
            ELSE IF col_ok THEN col_pos
            ELSE self.position
    IN  IF next_pos # self.position
        THEN [self |-> [self EXCEPT !.position = next_pos], ret |-> TRUE]
        ELSE [self |-> self, ret |-> FALSE]

\* Agent.move_towards: the agent after the call and the value returned.
move_towards(self, target, w) ==
    IF self.position = target THEN [self |-> self, ret |-> FALSE]
    ELSE
    LET current_r == self.position[1]
        current_c == self.position[2]
        target_r == target[1]
        target_c == target[2]
        next_pos ==
            IF current_r < target_r /\ is_walkable(w, <<current_r + 1, current_c>>)
                THEN <<current_r + 1, current_c>>
            ELSE IF current_r > target_r /\ is_walkable(w, <<current_r - 1, current_c>>)
                THEN <<current_r - 1, current_c>>
            ELSE IF current_c < target_c /\ is_walkable(w, <<current_r, current_c + 1>>)
                THEN <<current_r, current_c + 1>>
            ELSE IF current_c > target_c /\ is_walkable(w, <<current_r, current_c - 1>>)
                THEN <<current_r, current_c - 1>>
            ELSE self.position
    IN  IF next_pos # self.position
        THEN [self |-> [self EXCEPT !.position = next_pos], ret |-> TRUE]
        ELSE [self |-> self, ret |-> FALSE]

\* queue_spots: the open-space cells below the counter's row in columns 4..8,
\* in the order of the open_space zone.
QueueSpots(w) ==
    LET counter_row == w.zones.counter[1][1]
    IN  SelectSeq(w.zones.open_space,
                  LAMBDA pos : pos[1] > counter_row /\ 4 <= pos[2] /\ pos[2] <= 8)

\* occupied = {a.position for a in queue}
Occupied(queue_agents) == {queue_agents[i].position : i \in DOMAIN queue_agents}

\* Faulty variant: the search starts at the second spot.
FirstUnoccupiedSkipping(queue_spots, occupied) ==
    LET free == {i \in DOMAIN queue_spots : i > 1 /\ queue_spots[i] \notin occupied}
    IN  IF free = {} THEN NONE
        ELSE queue_spots[CHOOSE i \in free : \A j \in free : i <= j]

\* The for loop with break: the first spot not in occupied, or None.
FirstUnoccupied(queue_spots, occupied) ==
    LET free == {i \in DOMAIN queue_spots : queue_spots[i] \notin occupied}
    IN  IF free = {} THEN NONE
        ELSE queue_spots[CHOOSE i \in free : \A j \in free : i <= j]

\* The ENTERING branch up to the status change: the target after it.
ChooseTarget(self, w, queue_agents) ==
    IF w.zones.counter # <<>> /\ self.target_position = NONE
    THEN LET queue_spots == QueueSpots(w)
         IN  IF queue_spots # <<>>
             THEN LET found == FirstUnoccupied(queue_spots, Occupied(queue_agents))
                  IN  IF found = NONE THEN queue_spots[Len(queue_spots)] ELSE found
             ELSE self.target_position
    ELSE self.target_position

UpdateEntering(self, w, queue_agents) ==
    LET target == ChooseTarget(self, w, queue_agents)
    IN  IF target # NONE
        THEN [self |-> [self EXCEPT !.target_position = target,
                                    !.status = "MOVING_TO_QUEUE"],
              queue |-> queue_agents, action |-> "MOVE"]
        ELSE [self |-> self, queue |-> queue_agents, action |-> "WAIT"]

\* Faulty variant: arriving, the agent also takes its place in the queue itself.
UpdateMovingToQueueSelfJoin(self, w, queue_agents) ==
    IF self.target_position # NONE /\ self.position # self.target_position
    THEN [self |-> self, queue |-> queue_agents, action |-> "MOVE"]
    ELSE [self |-> [self EXCEPT !.status = "QUEUING",
                                !.queue_position = Len(queue_agents)],
          queue |-> Append(queue_agents, self), action |-> "QUEUE"]

\* Faulty variant: arriving, the status is left as it was.
UpdateMovingToQueueNoStatus(self, w, queue_agents) ==
    IF self.target_position # NONE /\ self.position # self.target_position
    THEN [self |-> self, queue |-> queue_agents, action |-> "MOVE"]
    ELSE [self |-> self, queue |-> queue_agents, action |-> "QUEUE"]

UpdateMovingToQueue(self, w, queue_agents) ==
    IF self.target_position # NONE /\ self.position # self.target_position
    THEN [self |-> self, queue |-> queue_agents, action |-> "MOVE"]
    ELSE [self |-> [self EXCEPT !.status = "QUEUING"],
          queue |-> queue_agents, action |-> "QUEUE"]

\* Customer.update: the agent and the queue after the call, and the action returned.
Customer_update(self, w, queue_agents) ==
    IF self.status = "ENTERING" THEN UpdateEntering(self, w, queue_agents)
    ELSE IF self.status = "MOVING_TO_QUEUE" THEN UpdateMovingToQueue(self, w, queue_agents)
    ELSE IF self.status = "QUEUING"
        THEN [self |-> self, queue |-> queue_agents, action |-> "WAIT"]
    ELSE [self |-> self, queue |-> queue_agents, action |-> "WAIT"]

(***************************************************************************)
(* norm.py: Norm                                                           *)
(***************************************************************************)
\* What the action argument of a Norm call may be: a member of Action, or the
\* queue-jump action that the norm names.
ActionArgs == Action \cup {"CUT_IN_LINE"}

\* action.value
ActionValue(action) ==
    CASE action = "MOVE" -> "move"
      [] action = "QUEUE" -> "queue"
      [] action = "YIELD" -> "yield"
      [] action = "ORDER" -> "order"
      [] action = "PICK_UP" -> "pick_up"
      [] action = "WAIT" -> "wait"
      [] action = "SERVE" -> "serve"
      [] OTHER -> "cut_in_line"

AgentStatusValue(status) ==
    CASE status = "ENTERING" -> "entering"
      [] status = "QUEUING" -> "queuing"
      [] status = "ORDERING" -> "ordering"
      [] status = "WAITING_FOR_ORDER" -> "waiting_for_order"
      [] status = "EXITING" -> "exiting"
      [] status = "WORKING" -> "working"
      [] status = "MOVING_TO_QUEUE" -> "moving_to_queue"
      [] OTHER -> "moving_to_pickup"

\* Action.<name>: the member of that name; an enumeration without that member
\* raises AttributeError.
ActionMember(name) ==
    IF name \in Action THEN [raised |-> "none", member |-> name]
    ELSE [raised |-> "AttributeError", member |-> name]

\* Norm.is_valid_action: what it raises, and what it returns when it raises nothing.
is_valid_action(agent, action, queue_agents) ==
    LET cut == ActionMember("CUT_IN_LINE")
    IN  IF cut.raised # "none" THEN [raised |-> cut.raised, ret |-> FALSE]
        ELSE IF action = cut.member THEN [raised |-> "none", ret |-> FALSE]
        ELSE [raised |-> "none", ret |-> TRUE]

\* Norm.check_violation: the log after the call, what it raises and what it returns.
check_violation(log, agent, action, queue_agents) ==
    LET valid == is_valid_action(agent, action, queue_agents)
    IN  IF valid.raised # "none"
        THEN [log |-> log, raised |-> valid.raised, ret |-> FALSE]
        ELSE IF ~valid.ret
        THEN [log |-> Append(log, [agent_id |-> agent.agent_id,
                                   action |-> ActionValue(action),
                                   status |-> AgentStatusValue(agent.status),
                                   position |-> agent.position,
                                   timestep |-> Len(log)]),
              raised |-> "none", ret |-> TRUE]
        ELSE [log |-> log, raised |-> "none", ret |-> FALSE]

(***************************************************************************)
(* State.  world, agents (by id, ids in creation order), queue (ids, front  *)
(* first) and violation_log are the program's objects; call records the    *)
(* last call made (its arguments, the objects before it, its outcome);     *)
(* tick, turn and hist belong to the tick loop.                            *)
(***************************************************************************)
MaxAgents == 2

MaxTicks == 12

MaxQueue == 1

TargetMargin == 1

NoCall ==
    [op |-> "none", id |-> 0, action |-> "none", target |-> NONE,
     before |-> NONE, after |-> NONE, queue_before |-> <<>>, queue_after |-> <<>>,
     log_before |-> <<>>, ret |-> FALSE, raised |-> "none"]

QueueAgents == [i \in DOMAIN queue |-> agents[queue[i]]]

AgentIds(queue_agents) == [i \in DOMAIN queue_agents |-> queue_agents[i].agent_id]

EntranceCells == {world.zones.entrance[i] : i \in DOMAIN world.zones.entrance}

Dist(p, q) ==
    (IF p[1] < q[1] THEN q[1] - p[1] ELSE p[1] - q[1])
    + (IF p[2] < q[2] THEN q[2] - p[2] ELSE p[2] - q[2])

(***************************************************************************)
(* The tick loop.  Between ticks a customer may be created at an entrance  *)
(* cell; within a tick the agents are taken in creation order, and each    *)
(* one's update is followed at once by the effect of the action proposed:  *)
(* MOVE is one move_towards step to target_position, QUEUE appends the     *)
(* agent to the queue, anything else does nothing.                         *)
(***************************************************************************)
Init ==
    /\ world = CafeWorld
    /\ agents = <<>>
    /\ queue = <<>>
    /\ violation_log = <<>>
    /\ call = NoCall
    /\ tick = 0
    /\ turn = 0
    /\ hist = <<>>

Admit(cell) ==
    /\ turn = 0
    /\ Len(agents) < MaxAgents
    /\ agents' = Append(agents, Customer(Len(agents) + 1, cell))
    /\ hist' = Append(hist, [start |-> cell, updates |-> 0, queue_proposals |-> 0])
    /\ call' = [NoCall EXCEPT !.op = "Customer", !.id = Len(agents) + 1]
    /\ UNCHANGED <<world, queue, violation_log, tick, turn>>

AgentStep ==
    /\ Len(agents) >= 1
    /\ tick < MaxTicks
    /\ LET id == turn + 1
           u == Customer_update(agents[id], world, QueueAgents)
           applied == IF u.action = "MOVE"
                      THEN move_towards(u.self, u.self.target_position, world).self
                      ELSE u.self
           last == (id = Len(agents))
       IN  /\ agents' = [agents EXCEPT ![id] = applied]
           /\ queue' = IF u.action = "QUEUE"
                       THEN Append(AgentIds(u.queue), id)
                       ELSE AgentIds(u.queue)
           /\ call' = [NoCall EXCEPT !.op = "update", !.id = id, !.action = u.action,
                                     !.before = agents[id], !.after = u.self,
                                     !.queue_before = QueueAgents,
                                     !.queue_after = u.queue]
           /\ hist' = [hist EXCEPT ![id].updates = @ + 1,
                                   ![id].queue_proposals =
                                        @ + (IF u.action = "QUEUE" THEN 1 ELSE 0)]
           /\ turn' = IF last THEN 0 ELSE id
           /\ tick' = IF last THEN tick + 1 ELSE tick
    /\ UNCHANGED <<world, violation_log>>

Next ==
    \/ \E cell \in EntranceCells : Admit(cell)
    \/ AgentStep

Spec == Init /\ [][Next]_vars

(***************************************************************************)
(* Properties of the tick loop and of the constructed world (under Spec)   *)
(***************************************************************************)
TableTypes == {TABLE_2TOP, TABLE_4TOP}

ChairCells == {c \in Cells : is_sittable(world, c)}

\* The chairs of the laptop bar: the chair cells right of a laptop-bar cell.
LaptopBarChairs ==
    {c \in ChairCells : c[2] >= 1 /\ world.grid[<<c[1], c[2] - 1>>] = LAPTOP_BAR_COUNTER}

MappedTables == {world.chair_to_table[c] : c \in DOMAIN world.chair_to_table}

HasTarget(id) == agents[id].target_position # NONE

NearestSpotDist(start) ==
    LET spots == QueueSpots(world)
        ds == {Dist(start, spots[i]) : i \in DOMAIN spots}
    IN  CHOOSE d \in ds : \A e \in ds : d <= e

SingleCustomerAfter(n) == Len(agents) = 1 /\ turn = 0 /\ tick = n

\* C5, as claimed: a single customer that started at an entrance cell is
\* QUEUING, and the queue is exactly that customer, after N ticks, N the
\* Manhattan distance from its start to the nearest free queue spot.
C5_QueuingAfterNearestDist ==
    SingleCustomerAfter(NearestSpotDist(hist[1].start)) =>
        /\ agents[1].status = "QUEUING"
        /\ queue = <<1>>

\* C5, amended: with N the Manhattan distance from the start to the first
\* queue spot in row-major order, the customer stands on that spot after N
\* ticks, still MOVING_TO_QUEUE and the queue empty, and after exactly N + 1
\* ticks it is QUEUING and the queue is exactly that customer.
C5_QueuingAfterFirstSpotDistPlusOne ==
    (Len(agents) = 1 /\ turn = 0) =>
        LET n == Dist(hist[1].start, QueueSpots(world)[1])
        IN  /\ tick <= n => (agents[1].status # "QUEUING" /\ queue = <<>>)
            /\ tick = n =>
                /\ agents[1].position = QueueSpots(world)[1]
                /\ agents[1].status = "MOVING_TO_QUEUE"
            /\ tick = n + 1 => (agents[1].status = "QUEUING" /\ queue = <<1>>)

C5_Witness ==
    /\ SingleCustomerAfter(Dist(hist[1].start, QueueSpots(world)[1]) + 1)
    /\ hist[1].start = <<9, 8>>
    /\ agents[1].status = "QUEUING"
    /\ queue = <<1>>

\* C7: the queue holds each agent id at most once: a customer proposes QUEUE
\* at most once, on leaving MOVING_TO_QUEUE for QUEUING; from then on it is in
\* the queue, stays QUEUING and proposes only WAIT.
C7_QueueHasNoDuplicates ==
    /\ \A i, j \in DOMAIN queue : i # j => queue[i] # queue[j]
    /\ \A id \in DOMAIN agents :
        /\ hist[id].queue_proposals <= 1
        /\ hist[id].queue_proposals = 1 <=> agents[id].status = "QUEUING"
        /\ hist[id].queue_proposals = 1 <=> (\E i \in DOMAIN queue : queue[i] = id)
    /\ call.op = "update" =>
        /\ call.action = "QUEUE" =>
            (call.before.status = "MOVING_TO_QUEUE" /\ call.after.status = "QUEUING")
        /\ call.before.status = "QUEUING" =>
            (call.action = "WAIT" /\ call.after.status = "QUEUING")

\* Two customers are queued and one of them has been updated again since.
C7_Witness ==
    /\ Len(queue) = 2
    /\ call.op = "update"
    /\ call.before.status = "QUEUING"
    /\ hist[call.id].updates > 1

(***************************************************************************)
(* Customer.update on its own (SpecUpdate): agent 1 in any status, at an   *)
(* entrance cell or on the first queue spot, with or without a target, and *)
(* a queue of customers standing on queue spots; update is called on       *)
(* agent 1 and nothing is applied.                                         *)
(***************************************************************************)
RECURSIVE SetsUpTo(_, _)
\* The subsets of S with at most n members.
SetsUpTo(S, n) ==
    IF n = 0 THEN {{}}
    ELSE LET smaller == SetsUpTo(S, n - 1)
         IN  smaller \cup {T \cup {x} : T \in smaller, x \in S}

\* The members of a set of indexes of a sequence, ascending.
Ascending(S, seq) == SelectSeq([i \in DOMAIN seq |-> i], LAMBDA i : i \in S)

\* Which queue spots are stood on: at most MaxQueue of them, or all of them,
\* or all but one.
SpotChoices ==
    LET all == DOMAIN QueueSpots(CafeWorld)
    IN  SetsUpTo(all, MaxQueue) \cup {all \ T : T \in SetsUpTo(all, 1)}

\* A customer that has queued on a spot.
Queued(agent_id, spot) ==
    [Customer(agent_id, spot) EXCEPT !.status = "QUEUING", !.target_position = spot]

InitUpdate ==
    /\ world = CafeWorld
    /\ \E status \in AgentStatus, taken \in SpotChoices :
        LET spots == QueueSpots(CafeWorld)
            order == Ascending(taken, spots)
        IN  \E position \in {CafeWorld.zones.entrance[1], spots[1]},
               target \in {NONE, spots[1]} :
                /\ agents =
                    <<[Customer(1, position) EXCEPT !.status = status,
                                                    !.target_position = target]>>
                    \o [i \in DOMAIN order |-> Queued(i + 1, spots[order[i]])]
                /\ queue = [i \in DOMAIN order |-> i + 1]
    /\ violation_log = <<>>
    /\ call = NoCall
    /\ tick = 0
    /\ turn = 0
    /\ hist = <<>>

UpdateCall ==
    LET u == Customer_update(agents[1], world, QueueAgents)
    IN  /\ agents' = [agents EXCEPT ![1] = u.self]
        /\ queue' = AgentIds(u.queue)
        /\ call' = [NoCall EXCEPT !.op = "update", !.id = 1, !.action = u.action,
                                  !.before = agents[1], !.after = u.self,
                                  !.queue_before = QueueAgents,
                                  !.queue_after = u.queue]
        /\ UNCHANGED <<world, violation_log, tick, turn, hist>>

NextUpdate == UpdateCall

SpecUpdate == InitUpdate /\ [][NextUpdate]_vars

\* C3: one call of Customer.update leaves the agent's position and the queue
\* (members and order) as they were; of the agent's fields only
\* target_position and status may differ afterwards.
C3_UpdateFrame ==
    call.op = "update" =>
        /\ call.after.position = call.before.position
        /\ call.after = [call.before EXCEPT
                            !.target_position = call.after.target_position,
                            !.status = call.after.status]
        /\ call.queue_after = call.queue_before
        /\ agents[1] = call.after
        /\ QueueAgents = call.queue_before

\* An arriving customer turned QUEUING next to a non-empty queue.
C3_Witness ==
    /\ call.op = "update"
    /\ call.before.status = "MOVING_TO_QUEUE"
    /\ call.after.status = "QUEUING"
    /\ Len(call.queue_before) >= 1
    /\ call.before.position = call.before.target_position

\* The candidate queue spots as the layout gives them: open-space cells in a
\* row below the counter's, columns 4 to 8.
CandidateCells ==
    LET counter_rows == {k[1] : k \in {c \in Cells : world.grid[c] = COUNTER}}
    IN  {p \in Cells :
            /\ world.grid[p] = EMPTY
            /\ \A r \in counter_rows : p[1] > r
            /\ p[2] \in 4 .. 8}

RowMajorRank(p) == p[1] * Width + p[2]

\* The first candidate in row-major order that no queued agent stands on, or
\* the last candidate when every candidate is stood on.
ExpectedTarget(queue_agents) ==
    LET taken == {queue_agents[i].position : i \in DOMAIN queue_agents}
        free == CandidateCells \ taken
    IN  IF free = {}
        THEN CHOOSE p \in CandidateCells :
                \A q \in CandidateCells : RowMajorRank(q) <= RowMajorRank(p)
        ELSE CHOOSE p \in free : \A q \in free : RowMajorRank(p) <= RowMajorRank(q)

\* C8: for an ENTERING customer without a target, update sets target_position
\* to the first candidate queue spot not stood on by a queued agent, or to the
\* last candidate when all are stood on; the target is walkable, the status
\* becomes MOVING_TO_QUEUE and the action proposed is MOVE.
C8_EnteringTarget ==
    (/\ call.op = "update"
     /\ call.before.status = "ENTERING"
     /\ call.before.target_position = NONE) =>
        /\ call.raised = "none"
        /\ call.after.target_position = ExpectedTarget(call.queue_before)
        /\ is_walkable(world, call.after.target_position)
        /\ call.after.status = "MOVING_TO_QUEUE"
        /\ call.action = "MOVE"

\* Every candidate is stood on and the customer is sent to the last one.
C8_Witness ==
    /\ call.op = "update"
    /\ call.before.status = "ENTERING"
    /\ call.before.target_position = NONE
    /\ CandidateCells \subseteq {call.queue_before[i].position : i \in DOMAIN call.queue_before}
    /\ call.after.target_position = <<9, 5>>

(***************************************************************************)
(* Agent.move_towards on its own (SpecMove): one agent on any walkable     *)
(* cell, with any target on the grid or within TargetMargin cells outside  *)
(* it; move_towards is called on it again and again.                       *)
(***************************************************************************)
TargetCells ==
    ((0 - TargetMargin) .. (Height - 1 + TargetMargin))
        \X ((0 - TargetMargin) .. (Width - 1 + TargetMargin))

InitMove ==
    /\ world = CafeWorld
    /\ \E position \in CafeWorld.walkable_cells, target \in TargetCells :
        agents = <<[Customer(1, position) EXCEPT !.status = "MOVING_TO_QUEUE",
                                                 !.target_position = target]>>
    /\ queue = <<>>
    /\ violation_log = <<>>
    /\ call = NoCall
    /\ tick = 0
    /\ turn = 0
    /\ hist = <<>>

MoveCall ==
    LET m == move_towards(agents[1], agents[1].target_position, world)
    IN  /\ agents' = [agents EXCEPT ![1] = m.self]
        /\ call' = [NoCall EXCEPT !.op = "move_towards", !.id = 1,
                                  !.target = agents[1].target_position,
                                  !.before = agents[1], !.after = m.self,
                                  !.ret = m.ret]
        /\ UNCHANGED <<world, queue, violation_log, tick, turn, hist>>

NextMove == MoveCall

SpecMove == InitMove /\ [][NextMove]_vars

\* The cells one orthogonal step from p that are nearer to t than p is.
NearerSteps(p, t) ==
    {n \in {<<p[1] + 1, p[2]>>, <<p[1] - 1, p[2]>>, <<p[1], p[2] + 1>>, <<p[1], p[2] - 1>>} :
        Dist(n, t) < Dist(p, t)}

\* C9: from a walkable cell, move_towards either returns True and has moved
\* the agent to a walkable, in-bounds, orthogonally adjacent cell one nearer
\* to the target, or returns False and has left the position alone, the agent
\* being at the target or every nearer step being non-walkable; so the
\* position stays walkable and the distance to the target never grows.
C9_MoveTowardsStep ==
    /\ is_walkable(world, agents[1].position)
    /\ call.op = "move_towards" =>
        LET b == call.before.position
            a == call.after.position
            t == call.target
        IN  /\ call.raised = "none"
            /\ agents[1] = call.after
            /\ call.after = [call.before EXCEPT !.position = a]
            /\ Dist(a, t) <= Dist(b, t)
            /\ call.ret = TRUE =>
                /\ is_walkable(world, a)
                /\ InBounds(a[1], a[2])
                /\ Dist(a, b) = 1
                /\ Dist(a, t) = Dist(b, t) - 1
            /\ call.ret = FALSE =>
                /\ a = b
                /\ b = t \/ \A n \in NearerSteps(b, t) : ~is_walkable(world, n)

\* A blocked agent: away from its target, it was not moved.
C9_Witness ==
    /\ call.op = "move_towards"
    /\ call.ret = FALSE
    /\ call.before.position # call.target
    /\ call.before.position = <<9, 4>>
    /\ call.target = <<2, 4>>

Abs(x) == IF x < 0 THEN 0 - x ELSE x

Sign(x) == IF x < 0 THEN 0 - 1 ELSE IF x > 0 THEN 1 ELSE 0

\* The row step and the column step from b towards t.
RowStep(b, t) == <<b[1] + Sign(t[1] - b[1]), b[2]>>

ColStep(b, t) == <<b[1], b[2] + Sign(t[2] - b[2])>>

BothDeltas(b, t) == b[1] # t[1] /\ b[2] # t[2]

\* C10, as claimed: with a row delta and a column delta, the step along the
\* axis of the larger delta is tried first and taken if walkable, and the step
\* along the other axis is taken only if that one is not walkable.
C10_LargerDeltaFirst ==
    (call.op = "move_towards" /\ BothDeltas(call.before.position, call.target)) =>
        LET b == call.before.position
            t == call.target
            dr == Abs(t[1] - b[1])
            dc == Abs(t[2] - b[2])
        IN  /\ (dc > dr /\ is_walkable(world, ColStep(b, t))) =>
                call.after.position = ColStep(b, t)
            /\ (dr > dc /\ is_walkable(world, RowStep(b, t))) =>
                call.after.position = RowStep(b, t)

\* C10, amended: with a row delta and a column delta, the row step is tried
\* first whatever the sizes of the deltas and is taken if walkable; the column
\* step is taken only if the row step is not walkable (and it is).
C10_RowFirst ==
    (call.op = "move_towards" /\ BothDeltas(call.before.position, call.target)) =>
        LET b == call.before.position
            t == call.target
        IN  /\ is_walkable(world, RowStep(b, t)) =>
                (call.ret = TRUE /\ call.after.position = RowStep(b, t))
            /\ (~is_walkable(world, RowStep(b, t)) /\ is_walkable(world, ColStep(b, t))) =>
                (call.ret = TRUE /\ call.after.position = ColStep(b, t))
            /\ (~is_walkable(world, RowStep(b, t)) /\ ~is_walkable(world, ColStep(b, t))) =>
                (call.ret = FALSE /\ call.after.position = b)

\* The column delta is the larger, both steps are walkable, the row step is taken.
C10_Witness ==
    /\ call.op = "move_towards"
    /\ BothDeltas(call.before.position, call.target)
    /\ Abs(call.target[2] - call.before.position[2])
        > Abs(call.target[1] - call.before.position[1])
    /\ is_walkable(world, ColStep(call.before.position, call.target))
    /\ is_walkable(world, RowStep(call.before.position, call.target))
    /\ call.after.position = RowStep(call.before.position, call.target)

(***************************************************************************)
(* Norm on its own (SpecNorm): one customer in any status at an entrance   *)
(* cell, queued or not; is_valid_action and check_violation are called     *)
(* with each member of Action and with the queue-jump action.              *)
(***************************************************************************)
InitNorm ==
    /\ world = CafeWorld
    /\ \E status \in AgentStatus, i \in DOMAIN CafeWorld.zones.entrance :
        agents = <<[Customer(1, CafeWorld.zones.entrance[i]) EXCEPT !.status = status]>>
    /\ queue \in {<<>>, <<1>>}
    /\ violation_log = <<>>
    /\ call = NoCall
    /\ tick = 0
    /\ turn = 0
    /\ hist = <<>>

IsValidActionCall(action) ==
    LET v == is_valid_action(agents[1], action, QueueAgents)
    IN  /\ call' = [NoCall EXCEPT !.op = "is_valid_action", !.id = 1, !.action = action,
                                  !.before = agents[1], !.after = agents[1],
                                  !.queue_before = QueueAgents,
                                  !.queue_after = QueueAgents,
                                  !.log_before = violation_log,
                                  !.ret = v.ret, !.raised = v.raised]
        /\ UNCHANGED <<world, agents, queue, violation_log, tick, turn, hist>>

CheckViolationCall(action) ==
    LET v == check_violation(violation_log, agents[1], action, QueueAgents)
    IN  /\ violation_log' = v.log
        /\ call' = [NoCall EXCEPT !.op = "check_violation", !.id = 1, !.action = action,
                                  !.before = agents[1], !.after = agents[1],
                                  !.queue_before = QueueAgents,
                                  !.queue_after = QueueAgents,
                                  !.log_before = violation_log,
                                  !.ret = v.ret, !.raised = v.raised]
        /\ UNCHANGED <<world, agents, queue, tick, turn, hist>>

NextNorm ==
    \/ \E action \in ActionArgs : IsValidActionCall(action)
    \/ \E action \in ActionArgs : CheckViolationCall(action)

SpecNorm == InitNorm /\ [][NextNorm]_vars

\* C1: check_violation with the queue-jump action returns True and leaves the
\* log one record longer, the new last record carrying the agent's id, the
\* action, the agent's status and position and the former log length as
\* timestep, the earlier records unchanged.
C1_QueueJumpLogged ==
    (call.op = "check_violation" /\ call.action = "CUT_IN_LINE") =>
        /\ call.raised = "none"
        /\ call.ret = TRUE
        /\ Len(violation_log) = Len(call.log_before) + 1
        /\ SubSeq(violation_log, 1, Len(call.log_before)) = call.log_before
        /\ violation_log[Len(violation_log)] =
            [agent_id |-> call.before.agent_id,
             action |-> "cut_in_line",
             status |-> AgentStatusValue(call.before.status),
             position |-> call.before.position,
             timestep |-> Len(call.log_before)]

\* C2: for each member of Action, is_valid_action completes normally with a
\* boolean and changes nothing; check_violation completes normally, returns
\* the negation of is_valid_action, and the log grows by one record exactly
\* when it returns True.
C2_MembersCheckNormally ==
    (call.op \in {"is_valid_action", "check_violation"} /\ call.action \in Action) =>
        /\ call.raised = "none"
        /\ call.ret \in BOOLEAN
        /\ agents[1] = call.before
        /\ QueueAgents = call.queue_before
        /\ call.op = "is_valid_action" => violation_log = call.log_before
        /\ call.op = "check_violation" =>
            /\ call.ret = ~is_valid_action(call.before, call.action, call.queue_before).ret
            /\ call.ret = FALSE
            /\ Len(violation_log) = Len(call.log_before) + 1 <=> call.ret
            /\ ~call.ret => violation_log = call.log_before

====
